---------------------------- MODULE Spec2Model ----------------------------
(***************************************************************************)
(* Model of the trip planner: the request handler simulate_trip            *)
(* (src/trips/views.py) and TripSimulator (src/trips/simulator.py).        *)
(*                                                                         *)
(* Units.  Durations are counted in ticks of 1/30 hour (two minutes), so   *)
(* that a tenth of an hour is three ticks and round(x, 1) never meets a    *)
(* tie.  Distances are whole miles.  Coordinates are whole micro-degrees   *)
(* (the sixth decimal that round(x, 6) keeps).  Values that the code       *)
(* rounds to one decimal are held in tenths.                               *)
(***************************************************************************)
EXTENDS Integers, Sequences, FiniteSets, TLC

VARIABLES
    pc,                 \* position of the request inside simulate_trip / simulate
    current_cycle_used, \* the value the handler passes to TripSimulator
    remaining_cycle,    \* self.remaining_cycle (hours)
    calls,              \* the adapter calls made so far, in order
    current_coords,     \* locals of simulate
    pickup_coords,
    dropoff_coords,
    route_to_pickup,
    main_route,
    result,             \* the dictionary simulate returns
    response,           \* the Response the handler returns
    failure,            \* what went wrong, if anything (history variable)
    total_driving_hours,\* arguments and results of simulate_trip_timeline
    total_distance,
    num_fuel_stops,
    now,
    events,
    daily_logs,
    fuel_locations      \* the list simulate builds at lines 235-246

vars == <<pc, current_cycle_used, remaining_cycle, calls, current_coords,
          pickup_coords, dropoff_coords, route_to_pickup, main_route, result,
          response, failure, total_driving_hours, total_distance,
          num_fuel_stops, now, events, daily_logs, fuel_locations>>

\* Python's None, and a variable not yet assigned
None == <<>>

(***************************************************************************)
(* Bounds of the model.                                                    *)
(***************************************************************************)
CycleSpread == 1        \* current_cycle_used ranges over 60 +/- CycleSpread
MaxLegHours == 4        \* whole hours of one routed leg
MaxLegTicks == 1        \* odd ticks on top of the whole hours of a leg
MaxLegDist == 1         \* length of one routed leg, in steps of 750 miles
MaxDrivingTicks == 450  \* driving time handed to the timeline builder
MaxStops == 2           \* fuel-stop count handed to the timeline builder
MaxNow == 1             \* reference times, in steps of 23 hours
MaxDistSteps == 14      \* total distance handed to the fuel planner, 250-mile steps
MaxCoord == 1           \* coordinates handed to the fuel planner

(***************************************************************************)
(* Numbers.                                                                *)
(***************************************************************************)
TicksPerHour == 3 * 10
TicksPerDay == 24 * TicksPerHour

Min(a, b) == IF a <= b THEN a ELSE b

\* math.ceil(num / den) for den > 0
Ceil(num, den) == -((-num) \div den)

\* round(num / den) to the nearest integer, ties to even, as Python's round
Round(num, den) ==
    LET q == num \div den
        r == num % den
    IN  IF 2 * r < den THEN q
        ELSE IF 2 * r > den THEN q + 1
        ELSE IF q % 2 = 0 THEN q ELSE q + 1

\* round(x, 1) of a duration held in ticks; the value is in tenths of an hour
Round1Hours(ticks) == Round(ticks * 10, TicksPerHour)

\* datetime.isoformat(): the date and the time of day, printed apart
isoformat(t) == [date |-> t \div TicksPerDay, time |-> t % TicksPerDay]

\* the instant an isoformat string denotes
fromisoformat(s) == s.date * TicksPerDay + s.time

(***************************************************************************)
(* TripSimulator.__init__                                                  *)
(***************************************************************************)
CycleLimit == 70
MinCycleHours == 10
pickup_time == 1 * TicksPerHour
dropoff_time == 1 * TicksPerHour
fuel_time == TicksPerHour \div 2
FirstDriveCap == 2 * TicksPerHour
FuelInterval == 1000

InitRemainingCycle(used) == CycleLimit - used

(***************************************************************************)
(* TripSimulator.calculate_fuel_stops                                      *)
(***************************************************************************)
\* calculate_fuel_stops counting whole intervals instead of interim stops
calculate_fuel_stops_floor(distance) ==
    IF distance <= FuelInterval THEN 0
    ELSE distance \div FuelInterval

calculate_fuel_stops(distance) ==
    IF distance <= FuelInterval THEN 0
    ELSE Ceil(distance, FuelInterval) - 1


(***************************************************************************)
(* The fuel locations of TripSimulator.simulate (lines 234-246).           *)
(* A coordinate pair is <<lat, lon>>; Python's index 0 is index 1 here.    *)
(***************************************************************************)
\* the fraction of line 238 divided by the stop count itself
FractionOverStops(i, n) == <<i + 1, n>>

\* fraction = (i + 1) / (num_fuel_stops + 1), kept as <<numerator, denominator>>
\* (i is the loop variable of range(num_fuel_stops), counted from 0)
Fraction(i, n) == <<i + 1, n + 1>>

\* round(a + fraction * (b - a), 6), in micro-degrees
Interpolate(a, b, fraction) ==
    Round(a * fraction[2] + fraction[1] * (b - a), fraction[2])

FuelLocation(i, n, pickup, dropoff) ==
    [lat |-> Interpolate(pickup[1], dropoff[1], Fraction(i, n)),
     lng |-> Interpolate(pickup[2], dropoff[2], Fraction(i, n)),
     name |-> <<"Fuel Stop", i + 1>>,
     distance_from_start |-> (i + 1) * FuelInterval]

FuelLocations(n, pickup, dropoff) ==
    IF n > 0
    THEN [k \in 1..n |-> FuelLocation(k - 1, n, pickup, dropoff)]
    ELSE <<>>

(***************************************************************************)
(* TripSimulator.create_eld_log_entry and simulate_trip_timeline           *)
(***************************************************************************)
\* elapsed_hours is held in hundredths of an hour
create_eld_log_entry(status, hours, description, start_time, day_start) ==
    [status |-> status,
     hours |-> hours,
     description |-> description,
     start_time |-> isoformat(start_time),
     elapsed_hours |-> Round(((start_time - day_start) % TicksPerDay) * 100,
                             TicksPerHour)]

\* the clock left where it was
AdvanceStale(t, hours) == t

\* now += timedelta(hours=...); a tick is a whole number of microseconds, so
\* timedelta holds it exactly
Advance(t, hours) == t + hours

\* line 149 without the min
DriveSegmentFixed(driving_remaining) == FirstDriveCap

DriveSegment(driving_remaining) == Min(driving_remaining, FirstDriveCap)

\* line 175 with >= in place of >
MainDriveNonNegative(driving_remaining) == driving_remaining >= 0

\* line 175 dropped: the main drive is always appended
MainDriveUnconditional(driving_remaining) == TRUE

\* the test of line 175
MainDriveNeeded(driving_remaining) == driving_remaining > 0

simulate_trip_timeline(hours, distance, stops, t0) ==
    LET current_day_start == t0 - (t0 % TicksPerDay)
        drive_segment == DriveSegment(hours)
        driving_remaining == hours - drive_segment
        t1 == Advance(t0, drive_segment)
        t2 == Advance(t1, pickup_time)
        main == MainDriveNeeded(driving_remaining)
        t3 == IF main THEN Advance(t2, driving_remaining) ELSE t2
        ev1 == <<[type |-> "drive", hours |-> drive_segment,
                  note |-> "Driving to pickup location",
                  start |-> isoformat(t0)],
                 [type |-> "pickup", hours |-> pickup_time,
                  note |-> "Loading at pickup location",
                  start |-> isoformat(t1)]>>
        ev2 == IF main
               THEN <<[type |-> "drive", hours |-> driving_remaining,
                       note |-> "Main route to destination",
                       start |-> isoformat(t2)]>>
               ELSE <<>>
        ev3 == <<[type |-> "dropoff", hours |-> dropoff_time,
                  note |-> "Unloading at destination",
                  start |-> isoformat(t3)]>>
        en1 == <<create_eld_log_entry("D", drive_segment, "Driving to pickup",
                                      t0, current_day_start),
                 create_eld_log_entry("ON", pickup_time, "Loading",
                                      t1, current_day_start)>>
        en2 == IF main
               THEN <<create_eld_log_entry("D", driving_remaining,
                                           "Route driving", t2,
                                           current_day_start)>>
               ELSE <<>>
        en3 == <<create_eld_log_entry("ON", dropoff_time, "Unloading",
                                      t3, current_day_start)>>
        current_log == [date |-> current_day_start \div TicksPerDay,
                        entries |-> en1 \o en2 \o en3,
                        total_driving |-> hours,
                        total_on_duty |-> hours + pickup_time + dropoff_time]
    IN  [events |-> ev1 \o ev2 \o ev3, daily_logs |-> <<current_log>>]


(***************************************************************************)
(* The adapters.  An adapter call returns [exc, value]: exc is the class   *)
(* of the exception that leaves the method, "none" when it returns.        *)
(***************************************************************************)
\* What the geocoding provider can answer: a feature with its [lon, lat]
\* coordinates, an empty feature list, a transport failure (any
\* requests.exceptions.RequestException), or a feature without the expected
\* geometry.
GeoFeatures == {<<0, 0>>, <<21, 14>>}

GeoAnswers ==
    [kind : {"ok"}, coordinates : GeoFeatures]
    \cup [kind : {"no_features", "transport", "malformed"},
          coordinates : {<<0, 0>>}]

geocode(answer) ==
    CASE answer.kind = "no_features" -> [exc |-> "ValueError", value |-> None]
      [] answer.kind = "transport" -> [exc |-> "ValueError", value |-> None]
      [] answer.kind = "malformed" -> [exc |-> "KeyError", value |-> None]
      [] OTHER -> [exc |-> "none",
                   value |-> <<answer.coordinates[2], answer.coordinates[1]>>]

\* What the routing provider can answer.  distance is given in miles (the
\* provider's metres times 0.000621371), time in seconds.
LegSeconds ==
    {h * 3600 + t * 120 : h \in 0..MaxLegHours, t \in 0..MaxLegTicks}

LegMiles == {750 * k : k \in 0..MaxLegDist}

RouteFailures ==
    {"api_error", "no_features", "missing_fields", "transport",
     "no_properties", "bad_type"}

RouteAnswers ==
    [kind : {"ok"}, distance : LegMiles, time : LegSeconds]
    \cup [kind : RouteFailures, distance : {0}, time : {0}]

get_route(start_coords, end_coords, answer) ==
    CASE answer.kind \in {"api_error", "no_features", "missing_fields",
                          "transport", "no_properties"} ->
             [exc |-> "ValueError", value |-> None]
      [] answer.kind = "bad_type" -> [exc |-> "TypeError", value |-> None]
      [] OTHER ->
             [exc |-> "none",
              value |-> [geojson |-> <<start_coords, end_coords>>,
                         distance |-> answer.distance,
                         duration |-> (answer.time * TicksPerHour) \div 3600,
                         fuel_locations |-> <<>>]]

(***************************************************************************)
(* Exceptions on their way out.                                            *)
(***************************************************************************)
\* simulate, lines 266-268: whatever is raised inside the try block leaves
\* as a ValueError
SimulateExcept(exc) == "ValueError"

\* simulate_trip, lines 50-61
HandlerExcept(exc) ==
    IF exc = "ValueError"
    THEN [status |-> 400, type |-> "validation_error", body |-> None]
    ELSE [status |-> 500, type |-> "internal_server_error", body |-> None]

\* line 208 with <= in place of <
CycleCheckFailsInclusive(remaining) == remaining <= MinCycleHours

\* line 208
CycleCheckFails(remaining) == remaining < MinCycleHours

\* lines 29-32 of the handler
ParseCycleUsed(field) == IF field.kind = "int" THEN field.value ELSE 0

\* line 261 clamped at zero
RemainingCycleHoursClamped(remaining, hours, stops) ==
    LET r == Round1Hours(remaining * TicksPerHour - hours - pickup_time
                         - dropoff_time - stops * fuel_time)
    IN  IF r < 0 THEN 0 ELSE r

\* line 261, in tenths of an hour
RemainingCycleHours(remaining, hours, stops) ==
    Round1Hours(remaining * TicksPerHour - hours - pickup_time - dropoff_time
                - stops * fuel_time)


(***************************************************************************)
(* The request handler and TripSimulator.simulate, one action per step     *)
(* that ends at an adapter call or at the response.                        *)
(***************************************************************************)
RequiredFields == {"current_location", "pickup_location", "dropoff_location"}

\* the request's current_cycle_used: absent, not convertible by int(), or a
\* number
CycleInputs ==
    [kind : {"absent", "junk"}, value : {0}]
    \cup [kind : {"int"}, value : (60 - CycleSpread)..(60 + CycleSpread)]

\* datetime.now(): midnight, and 23 hours later
Nows == {23 * TicksPerHour * k : k \in 0..MaxNow}

GeocodeCall(address) == [op |-> "geocode", args |-> <<address>>]
RouteCall(from, to) == [op |-> "get_route", args |-> <<from, to>>]

\* the request ends with an error response
Fail(resp, cause) ==
    /\ response' = resp
    /\ failure' = [stage |-> cause[1], kind |-> cause[2],
                   calls_made |-> Len(calls')]
    /\ pc' = "done"
    /\ result' = None

timelineVars == <<total_driving_hours, total_distance, num_fuel_stops, now,
                  events, daily_logs, fuel_locations>>

\* simulate_trip up to the first adapter call: lines 12-45 of the handler,
\* TripSimulator.__init__, and lines 205-209 of simulate
ReceiveRequest ==
    /\ pc = "request"
    /\ UNCHANGED <<calls, current_coords, pickup_coords, dropoff_coords,
                   route_to_pickup, main_route>>
    /\ \E body_ok \in BOOLEAN, fields \in SUBSET RequiredFields,
          cycle \in CycleInputs, data_token \in BOOLEAN,
          config_token \in BOOLEAN :
          LET used == ParseCycleUsed(cycle)
              remaining == InitRemainingCycle(used)
          IN  IF ~body_ok
              THEN /\ Fail(HandlerExcept("ParseError"),
                           <<"handler", "unreadable_body">>)
                   /\ UNCHANGED <<current_cycle_used, remaining_cycle>>
              ELSE IF fields # RequiredFields
              THEN /\ Fail([status |-> 400, type |-> "validation_error",
                            body |-> None],
                           <<"handler", "missing_field">>)
                   /\ UNCHANGED <<current_cycle_used, remaining_cycle>>
              ELSE IF ~data_token /\ ~config_token
              THEN /\ Fail(HandlerExcept("ValueError"),
                           <<"init", "no_token">>)
                   /\ UNCHANGED <<current_cycle_used, remaining_cycle>>
              ELSE /\ current_cycle_used' = used
                   /\ remaining_cycle' = remaining
                   /\ IF CycleCheckFails(remaining)
                      THEN Fail(HandlerExcept("ValueError"),
                                <<"simulate", "insufficient_cycle">>)
                      ELSE /\ pc' = "geocode_current"
                           /\ UNCHANGED <<response, failure, result>>
    /\ UNCHANGED timelineVars

\* line 213
GeocodeCurrent ==
    /\ pc = "geocode_current"
    /\ \E answer \in GeoAnswers :
          LET r == geocode(answer)
          IN  /\ calls' = Append(calls, GeocodeCall("current_addr"))
              /\ IF r.exc = "none"
                 THEN /\ current_coords' = r.value
                      /\ pc' = "geocode_pickup"
                      /\ UNCHANGED <<response, failure, result>>
                 ELSE /\ Fail(HandlerExcept(SimulateExcept(r.exc)),
                              <<"geocode", answer.kind>>)
                      /\ UNCHANGED current_coords
    /\ UNCHANGED <<current_cycle_used, remaining_cycle, pickup_coords,
                   dropoff_coords, route_to_pickup, main_route>>
    /\ UNCHANGED timelineVars

\* line 214
GeocodePickup ==
    /\ pc = "geocode_pickup"
    /\ \E answer \in GeoAnswers :
          LET r == geocode(answer)
          IN  /\ calls' = Append(calls, GeocodeCall("pickup_addr"))
              /\ IF r.exc = "none"
                 THEN /\ pickup_coords' = r.value
                      /\ pc' = "geocode_dropoff"
                      /\ UNCHANGED <<response, failure, result>>
                 ELSE /\ Fail(HandlerExcept(SimulateExcept(r.exc)),
                              <<"geocode", answer.kind>>)
                      /\ UNCHANGED pickup_coords
    /\ UNCHANGED <<current_cycle_used, remaining_cycle, current_coords,
                   dropoff_coords, route_to_pickup, main_route>>
    /\ UNCHANGED timelineVars

\* line 215
GeocodeDropoff ==
    /\ pc = "geocode_dropoff"
    /\ \E answer \in GeoAnswers :
          LET r == geocode(answer)
          IN  /\ calls' = Append(calls, GeocodeCall("dropoff_addr"))
              /\ IF r.exc = "none"
                 THEN /\ dropoff_coords' = r.value
                      /\ pc' = "route_to_pickup"
                      /\ UNCHANGED <<response, failure, result>>
                 ELSE /\ Fail(HandlerExcept(SimulateExcept(r.exc)),
                              <<"geocode", answer.kind>>)
                      /\ UNCHANGED dropoff_coords
    /\ UNCHANGED <<current_cycle_used, remaining_cycle, current_coords,
                   pickup_coords, route_to_pickup, main_route>>
    /\ UNCHANGED timelineVars

\* line 220 with the two coordinate pairs swapped
RouteToPickupSwapped ==
    /\ pc = "route_to_pickup"
    /\ \E answer \in RouteAnswers :
          LET r == get_route(pickup_coords, current_coords, answer)
          IN  /\ calls' = Append(calls, RouteCall(pickup_coords,
                                                  current_coords))
              /\ IF r.exc = "none"
                 THEN /\ route_to_pickup' = r.value
                      /\ pc' = "main_route"
                      /\ UNCHANGED <<response, failure, result>>
                 ELSE /\ Fail(HandlerExcept(SimulateExcept(r.exc)),
                              <<"get_route", answer.kind>>)
                      /\ UNCHANGED route_to_pickup
    /\ UNCHANGED <<current_cycle_used, remaining_cycle, current_coords,
                   pickup_coords, dropoff_coords, main_route>>
    /\ UNCHANGED timelineVars

\* line 220
RouteToPickup ==
    /\ pc = "route_to_pickup"
    /\ \E answer \in RouteAnswers :
          LET r == get_route(current_coords, pickup_coords, answer)
          IN  /\ calls' = Append(calls, RouteCall(current_coords,
                                                  pickup_coords))
              /\ IF r.exc = "none"
                 THEN /\ route_to_pickup' = r.value
                      /\ pc' = "main_route"
                      /\ UNCHANGED <<response, failure, result>>
                 ELSE /\ Fail(HandlerExcept(SimulateExcept(r.exc)),
                              <<"get_route", answer.kind>>)
                      /\ UNCHANGED route_to_pickup
    /\ UNCHANGED <<current_cycle_used, remaining_cycle, current_coords,
                   pickup_coords, dropoff_coords, main_route>>
    /\ UNCHANGED timelineVars

\* the dictionary of lines 253-264; one-decimal values are in tenths
SimulationResult(ev, logs, dist, hrs, route, stops, locs, remaining) ==
    [events |-> ev,
     daily_logs |-> logs,
     total_distance |-> dist * 10,
     total_driving_hours |-> Round1Hours(hrs),
     route_geojson |-> route.geojson,
     fuel_stops |-> stops,
     fuel_locations |-> locs,
     remaining_cycle_hours |-> RemainingCycleHours(remaining, hrs, stops),
     status |-> "success",
     message |-> "Trip simulation completed successfully"]

\* lines 223-264, and lines 47-48 of the handler
MainRoute ==
    /\ pc = "main_route"
    /\ \E answer \in RouteAnswers, t0 \in Nows :
          LET r == get_route(pickup_coords, dropoff_coords, answer)
              distance == route_to_pickup.distance + r.value.distance
              hours == route_to_pickup.duration + r.value.duration
              stops == calculate_fuel_stops(distance)
              locations == FuelLocations(stops, pickup_coords, dropoff_coords)
              timeline == simulate_trip_timeline(hours, distance, stops, t0)
          IN  /\ calls' = Append(calls, RouteCall(pickup_coords,
                                                  dropoff_coords))
              /\ IF r.exc = "none"
                 THEN /\ main_route' = r.value
                      /\ total_distance' = distance
                      /\ total_driving_hours' = hours
                      /\ num_fuel_stops' = stops
                      /\ fuel_locations' = locations
                      /\ now' = t0
                      /\ events' = timeline.events
                      /\ daily_logs' = timeline.daily_logs
                      /\ result' = SimulationResult(
                             timeline.events, timeline.daily_logs, distance,
                             hours, r.value, stops, locations,
                             remaining_cycle)
                      /\ response' = [status |-> 200, type |-> "result",
                                      body |-> result']
                      /\ pc' = "done"
                      /\ UNCHANGED failure
                 ELSE /\ Fail(HandlerExcept(SimulateExcept(r.exc)),
                              <<"get_route", answer.kind>>)
                      /\ UNCHANGED main_route
                      /\ UNCHANGED timelineVars
    /\ UNCHANGED <<current_cycle_used, remaining_cycle, current_coords,
                   pickup_coords, dropoff_coords, route_to_pickup>>

Init ==
    /\ pc = "request"
    /\ current_cycle_used = None
    /\ remaining_cycle = None
    /\ calls = <<>>
    /\ current_coords = None
    /\ pickup_coords = None
    /\ dropoff_coords = None
    /\ route_to_pickup = None
    /\ main_route = None
    /\ result = None
    /\ response = None
    /\ failure = None
    /\ total_driving_hours = None
    /\ total_distance = None
    /\ num_fuel_stops = None
    /\ now = None
    /\ events = None
    /\ daily_logs = None
    /\ fuel_locations = None

Next ==
    \/ ReceiveRequest
    \/ GeocodeCurrent
    \/ GeocodePickup
    \/ GeocodeDropoff
    \/ RouteToPickup
    \/ MainRoute

Spec == Init /\ [][Next]_vars


(***************************************************************************)
(* The timeline builder on its own: simulate_trip_timeline applied to      *)
(* arguments drawn from bounded sets.                                      *)
(***************************************************************************)
TimelineDistances == {500, 2500}

InitTimeline ==
    /\ pc = "timeline"
    /\ total_driving_hours \in 0..MaxDrivingTicks
    /\ total_distance \in TimelineDistances
    /\ num_fuel_stops \in 0..MaxStops
    /\ now \in Nows
    /\ events = None
    /\ daily_logs = None
    /\ fuel_locations = None
    /\ current_cycle_used = None
    /\ remaining_cycle = None
    /\ calls = <<>>
    /\ current_coords = None
    /\ pickup_coords = None
    /\ dropoff_coords = None
    /\ route_to_pickup = None
    /\ main_route = None
    /\ result = None
    /\ response = None
    /\ failure = None

BuildTimeline ==
    /\ pc = "timeline"
    /\ LET timeline == simulate_trip_timeline(total_driving_hours,
                                              total_distance, num_fuel_stops,
                                              now)
       IN  /\ events' = timeline.events
           /\ daily_logs' = timeline.daily_logs
    /\ pc' = "built"
    /\ UNCHANGED <<current_cycle_used, remaining_cycle, calls, current_coords,
                   pickup_coords, dropoff_coords, route_to_pickup, main_route,
                   result, response, failure, total_driving_hours,
                   total_distance, num_fuel_stops, now, fuel_locations>>

NextTimeline == BuildTimeline

SpecTimeline == InitTimeline /\ [][NextTimeline]_vars

(***************************************************************************)
(* The fuel-stop planner on its own: lines 231-246 of simulate applied to  *)
(* a total distance and two coordinate pairs drawn from bounded sets.      *)
(***************************************************************************)
PlannerDistances ==
    {d \in {250 * k + e : k \in 0..MaxDistSteps, e \in {-1, 0, 1}} : d >= 0}

PlannerCoords ==
    {<<7 * a, 7 * b>> : a \in (-MaxCoord)..MaxCoord,
                       b \in (-MaxCoord)..MaxCoord}

InitFuel ==
    /\ pc = "fuel"
    /\ total_distance \in PlannerDistances
    /\ pickup_coords \in PlannerCoords
    /\ dropoff_coords \in PlannerCoords
    /\ num_fuel_stops = None
    /\ fuel_locations = None
    /\ total_driving_hours = None
    /\ now = None
    /\ events = None
    /\ daily_logs = None
    /\ current_cycle_used = None
    /\ remaining_cycle = None
    /\ calls = <<>>
    /\ current_coords = None
    /\ route_to_pickup = None
    /\ main_route = None
    /\ result = None
    /\ response = None
    /\ failure = None

PlanFuelStops ==
    /\ pc = "fuel"
    /\ num_fuel_stops' = calculate_fuel_stops(total_distance)
    /\ fuel_locations' = FuelLocations(num_fuel_stops', pickup_coords,
                                       dropoff_coords)
    /\ pc' = "planned"
    /\ UNCHANGED <<current_cycle_used, remaining_cycle, calls, current_coords,
                   pickup_coords, dropoff_coords, route_to_pickup, main_route,
                   result, response, failure, total_driving_hours,
                   total_distance, now, events, daily_logs>>

NextFuel == PlanFuelStops

SpecFuel == InitFuel /\ [][NextFuel]_vars


(***************************************************************************)
(* Properties.                                                             *)
(***************************************************************************)
\* simulate was entered: the request was readable and complete and the
\* simulator was constructed
SimulateCalled ==
    /\ pc # "request"
    /\ \/ failure = None
       \/ failure.stage \notin {"handler", "init"}

RefusedForCycle ==
    /\ failure # None
    /\ failure.stage = "simulate"
    /\ failure.kind = "insufficient_cycle"

\* C1: whenever simulate is entered with 70 - current_cycle_used below 10,
\* the request ends in a validation error and no adapter call was made; with
\* 10 or more hours left the simulation is not refused for lack of cycle
\* hours.
C1_CycleRefusal ==
    SimulateCalled =>
        IF 70 - current_cycle_used < 10
        THEN /\ RefusedForCycle
             /\ pc = "done"
             /\ response.status = 400
             /\ response.type = "validation_error"
             /\ result = None
             /\ calls = <<>>
        ELSE ~RefusedForCycle

C1_Witness ==
    /\ pc = "done"
    /\ RefusedForCycle
    /\ current_cycle_used = 61
    /\ calls = <<>>

\* C2: the fuel-stop count equals the length of the fuel-location list, is
\* 0 for a distance of at most 1000 miles, is ceil(distance / 1000) - 1
\* above 1000 miles, and is never negative.
C2_FuelStopCount ==
    pc = "planned" =>
        /\ num_fuel_stops = Len(fuel_locations)
        /\ num_fuel_stops >= 0
        /\ total_distance <= 1000 => num_fuel_stops = 0
        /\ total_distance > 1000 =>
               /\ 1000 * (num_fuel_stops + 1) >= total_distance
               /\ 1000 * num_fuel_stops < total_distance

C2_Witness ==
    /\ pc = "planned"
    /\ total_distance = 2001
    /\ num_fuel_stops = 2
    /\ Len(fuel_locations) = 2

\* C3: with n > 0 stops, stop i (i = 1..n, in list order) is named i, lies
\* at the interpolation fraction i / (n + 1) between pickup and dropoff, a
\* fraction strictly between 0 and 1, and is i x 1000 miles from the start;
\* fraction and distance strictly increase along the list.
C3_FuelStopPlacement ==
    (pc = "planned" /\ num_fuel_stops > 0) =>
        LET n == num_fuel_stops
            f(i) == Fraction(i - 1, n)
        IN  /\ Len(fuel_locations) = n
            /\ \A i \in 1..n :
                  /\ f(i)[1] * (n + 1) = i * f(i)[2]
                  /\ 0 < f(i)[1]
                  /\ f(i)[1] < f(i)[2]
                  /\ fuel_locations[i].name = <<"Fuel Stop", i>>
                  /\ fuel_locations[i].lat =
                         Round(pickup_coords[1] * (n + 1)
                               + i * (dropoff_coords[1] - pickup_coords[1]),
                               n + 1)
                  /\ fuel_locations[i].lng =
                         Round(pickup_coords[2] * (n + 1)
                               + i * (dropoff_coords[2] - pickup_coords[2]),
                               n + 1)
                  /\ fuel_locations[i].distance_from_start = i * 1000
            /\ \A i \in 1..(n - 1) :
                  /\ f(i)[1] * f(i + 1)[2] < f(i + 1)[1] * f(i)[2]
                  /\ fuel_locations[i].distance_from_start
                         < fuel_locations[i + 1].distance_from_start

C3_Witness ==
    /\ pc = "planned"
    /\ num_fuel_stops = 3
    /\ pickup_coords = <<-7, 7>>
    /\ dropoff_coords = <<7, 0>>
    /\ fuel_locations[2].lat = 0
    /\ fuel_locations[3].distance_from_start = 3000

EventShape(e) == <<e.type, e.hours>>

EventShapes == [i \in 1..Len(events) |-> EventShape(events[i])]

\* C4: for driving time h the events are exactly Drive(min(h, 2 h)),
\* Pickup(1 h), Drive(h - 2 h) if and only if h exceeds 2 h, Dropoff(1 h),
\* whatever the distance and the fuel-stop count.
C4_TimelineSequence ==
    pc = "built" =>
        LET h == total_driving_hours
            two == 2 * TicksPerHour
            one == TicksPerHour
        IN  EventShapes =
                <<<<"drive", IF h <= two THEN h ELSE two>>,
                  <<"pickup", one>>>>
                \o (IF h > two THEN <<<<"drive", h - two>>>> ELSE <<>>)
                \o <<<<"dropoff", one>>>>

C4_Witness ==
    /\ pc = "built"
    /\ total_driving_hours = 15 * TicksPerHour
    /\ total_distance = 2500
    /\ EventShapes = <<<<"drive", 60>>, <<"pickup", 30>>, <<"drive", 390>>,
                       <<"dropoff", 30>>>>

RECURSIVE DriveHours(_)
DriveHours(ev) ==
    IF ev = <<>> THEN 0
    ELSE (IF Head(ev).type = "drive" THEN Head(ev).hours ELSE 0)
         + DriveHours(Tail(ev))

\* C5: the durations of the Drive events add up to the driving time that
\* was handed to the timeline builder.
C5_DriveSum ==
    pc = "built" => DriveHours(events) = total_driving_hours

C5_Witness ==
    /\ pc = "built"
    /\ total_driving_hours = 75
    /\ Len(events) = 4
    /\ DriveHours(events) = 75

AllDurationsPositive == \A i \in 1..Len(events) : events[i].hours > 0

\* C8 as stated: for every driving time >= 0 every event of the timeline has
\* a strictly positive duration.
C8_Original ==
    (pc = "built" /\ total_driving_hours >= 0) => AllDurationsPositive

\* C8 amended: for every driving time > 0 every event of the timeline has a
\* strictly positive duration, the main drive of a trip of at most 2 hours
\* being left out; with a driving time of 0 the first Drive event is emitted
\* with duration 0.
C8_PositiveDurations ==
    pc = "built" =>
        /\ total_driving_hours > 0 => AllDurationsPositive
        /\ total_driving_hours <= 2 * TicksPerHour =>
               /\ Len(events) = 3
               /\ \A i \in 1..Len(events) :
                      events[i].note # "Main route to destination"
        /\ total_driving_hours = 0 =>
               /\ events[1].type = "drive"
               /\ events[1].hours = 0

C8_Witness ==
    /\ pc = "built"
    /\ total_driving_hours = 2 * TicksPerHour
    /\ Len(events) = 3
    /\ AllDurationsPositive

StartOf(i) == fromisoformat(events[i].start)

Contiguous ==
    /\ StartOf(1) = now
    /\ \A i \in 1..(Len(events) - 1) :
           StartOf(i + 1) = StartOf(i) + events[i].hours

StrictlyOrdered ==
    \A i \in 1..(Len(events) - 1) : StartOf(i) < StartOf(i + 1)

\* C9 as stated: the events are strictly time-ordered and contiguous, and
\* the first starts at the reference time.
C9_Original ==
    pc = "built" => (Contiguous /\ StrictlyOrdered)

\* C9 amended: the events are contiguous and the first starts at the
\* reference time; their starts never decrease, and strictly increase when
\* the driving time is above 0 (with a driving time of 0 the first Drive and
\* the Pickup start at the same instant).
C9_Contiguous ==
    pc = "built" =>
        /\ Contiguous
        /\ \A i \in 1..(Len(events) - 1) : StartOf(i) <= StartOf(i + 1)
        /\ total_driving_hours > 0 => StrictlyOrdered
        /\ total_driving_hours = 0 => StartOf(1) = StartOf(2)

C9_Witness ==
    /\ pc = "built"
    /\ total_driving_hours = 45
    /\ now = 23 * TicksPerHour
    /\ Len(events) = 3
    /\ StartOf(3) = now + 45 + 30
    /\ events[3].start.date = 1

Succeeded == pc = "done" /\ result # None

\* the cycle hours left after the trip, unrounded, in ticks
CycleBalance ==
    (70 - current_cycle_used) * TicksPerHour - total_driving_hours
    - TicksPerHour - TicksPerHour - (num_fuel_stops * TicksPerHour) \div 2

\* C6 as stated: remaining_cycle_hours is the balance rounded to 1 decimal
\* and is negative whenever the trip consumes more than the remaining
\* cycle hours.
C6_Original ==
    Succeeded =>
        /\ 2 * (result.remaining_cycle_hours * TicksPerHour
                - 10 * CycleBalance) <= TicksPerHour
        /\ 2 * (10 * CycleBalance
                - result.remaining_cycle_hours * TicksPerHour) <= TicksPerHour
        /\ CycleBalance < 0 => result.remaining_cycle_hours < 0

\* C6 amended: remaining_cycle_hours is the balance rounded to 1 decimal
\* (at most 0.05 away from it) and is not clamped: it is negative whenever
\* the trip consumes more than the remaining cycle hours by more than 0.05
\* hours, and 0.0 when the excess is smaller than 0.05 hours.
C6_RemainingCycleHours ==
    Succeeded =>
        /\ 2 * (result.remaining_cycle_hours * TicksPerHour
                - 10 * CycleBalance) <= TicksPerHour
        /\ 2 * (10 * CycleBalance
                - result.remaining_cycle_hours * TicksPerHour) <= TicksPerHour
        /\ 20 * CycleBalance < -TicksPerHour =>
               result.remaining_cycle_hours < 0
        /\ (CycleBalance < 0 /\ 20 * CycleBalance > -TicksPerHour) =>
               result.remaining_cycle_hours = 0
        /\ result.fuel_stops = num_fuel_stops

C6_Witness ==
    /\ Succeeded
    /\ current_cycle_used = 60
    /\ num_fuel_stops = 1
    /\ CycleBalance < 0
    /\ result.remaining_cycle_hours < 0

UnexpectedFailures ==
    {<<"handler", "unreadable_body">>, <<"geocode", "malformed">>,
     <<"get_route", "bad_type">>}

\* C7 as stated: an expected failure ends in a 400 response of type
\* validation_error, and every unexpected failure, also one raised inside
\* the simulation, ends in the generic 500 response.
C7_ErrorMapping ==
    (pc = "done" /\ failure # None) =>
        IF <<failure.stage, failure.kind>> \in UnexpectedFailures
        THEN /\ response.status = 500
             /\ response.type # "validation_error"
        ELSE /\ response.status = 400
             /\ response.type = "validation_error"

ExpectedCall(i) ==
    CASE i = 1 -> GeocodeCall("current_addr")
      [] i = 2 -> GeocodeCall("pickup_addr")
      [] i = 3 -> GeocodeCall("dropoff_addr")
      [] i = 4 -> RouteCall(current_coords, pickup_coords)
      [] i = 5 -> RouteCall(pickup_coords, dropoff_coords)

AdapterFailed ==
    /\ failure # None
    /\ failure.stage \in {"geocode", "get_route"}

\* C10: once the cycle check has passed the adapter calls are, in this
\* order and each at most once, geocode(current), geocode(pickup),
\* geocode(dropoff), route(current -> pickup), route(pickup -> dropoff); the
\* first failing call is the last call made, and then nothing of a result
\* (events, logs, fuel stops) is returned; a result needs all five calls.
C10_AdapterCallOrder ==
    /\ Len(calls) <= 5
    /\ \A i \in 1..Len(calls) : calls[i] = ExpectedCall(i)
    /\ AdapterFailed =>
           /\ pc = "done"
           /\ Len(calls) = failure.calls_made
           /\ result = None
           /\ response.body = None
           /\ response.status # 200
           /\ events = None
           /\ daily_logs = None
           /\ fuel_locations = None
    /\ Succeeded => Len(calls) = 5

C10_Witness ==
    /\ pc = "done"
    /\ AdapterFailed
    /\ failure.stage = "get_route"
    /\ Len(calls) = 4
    /\ current_coords # pickup_coords
    /\ result = None

=============================================================================
